---- MODULE Spec2Model ----
(***************************************************************************)
(* A model of the gfnmixtures SEH fragment tasks and trainers:             *)
(*   src/src/gflownet/tasks/seh_frag.py      SEHTask, SEHFragTrainer       *)
(*   src/src/gflownet/tasks/seh_frag_moo.py  SEHMOOTask, SEHMOOFragTrainer *)
(*   src/src/gflownet/models/kmeans_classifier.py                          *)
(*   src/job.py                              the command-line launcher     *)
(*                                                                         *)
(* Real numbers are fixed point.  Rewards are counted in units of 1.25e-5  *)
(* (1e-4 / 8), so that the division by 8 of the proxy output and the clip  *)
(* bound 1e-4 are both exact.  Tensors are sequences (rows of sequences);  *)
(* a shape is the sequence of its dimensions.  An optional value (None in  *)
(* the source) is the empty set, a present value x is {x}.                 *)
(***************************************************************************)
EXTENDS Integers, Sequences, FiniteSets, TLC

VARIABLES
    task,        \* the task object: the fields SEHTask/SEHMOOTask.__init__ set
    rew,         \* the last compute_flat_rewards call: arguments and outcome
    cond_info,   \* the last conditioning produced (sample_/encode_conditional_information)
    logrew,      \* cond_info_to_logreward of the current cond_info and rewards, once called
    valid_prefs, \* SEHMOOFragTrainer.setup: the fixed validation preferences
    trainer,     \* SEHFragTrainer: parameters, gradients, optimizers, position in step()
    launch,      \* job.py / main(): arguments, hps, file system, position
    test_data,   \* SEHMOOFragTrainer.setup: the validation dataset and its last lookup
    ctx          \* setup_env_context / setup_algo: the environment context and the algorithm

vars == <<task, rew, cond_info, logrew, valid_prefs, trainer, launch, test_data, ctx>>

----------------------------------------------------------------------------
(* Bounds of the model *)

\* longest list of molecules handed to compute_flat_rewards
MaxMols == 2
\* largest batch size n of sample_conditional_information / encode_conditional_information
MaxBatch == 2
\* total_parts: the number of clusters of the k-means model (cluster ids 0 .. total_parts - 1)
TotalParts == 2
\* num_thermometer_dim: the width of a thermometer encoding
NumThermometerDim == 2
\* the grid of the simplex: a preference entry is a multiple of 1 / PrefOne
PrefOne == 2
\* n_valid_prefs: the number of fixed validation preference vectors
NValidPrefs == 2
\* the number of calls of SEHFragTrainer.step a run makes
MaxSteps == 2

\* n_valid_repeats_per_pref is at most MaxRepeat
MaxRepeat == 2

\* hps["max_nodes"] is within MaxNodesSpread of its default
MaxNodesSpread == 1

----------------------------------------------------------------------------
(* Generic helpers *)

None == {}

Some(x) == {x}

IsNone(o) == o = {}

The(o) == CHOOSE x \in o : TRUE

Min(a, b) == IF a <= b THEN a ELSE b

Max(a, b) == IF a >= b THEN a ELSE b

\* torch.Tensor.clip(lo, hi) / clamp on one element
Clip(x, lo, hi) == Max(lo, Min(x, hi))

\* the sequences over S of length at most n
SeqsUpTo(S, n) == UNION {[1..k -> S] : k \in 0..n}

RECURSIVE SelectIdx(_, _)
\* the increasing sequence of the indices 1..n of s that satisfy keep
SelectIdx(n, keep) ==
    IF n = 0 THEN <<>>
    ELSE IF keep[n] THEN Append(SelectIdx(n - 1, keep), n)
         ELSE SelectIdx(n - 1, keep)

\* [x for x, v in zip(s, keep) if v]
Compress(s, keep) ==
    LET idx == SelectIdx(Len(s), keep)
    IN  [i \in 1..Len(idx) |-> s[idx[i]]]

CountTrue(keep) == Cardinality({i \in DOMAIN keep : keep[i]})

----------------------------------------------------------------------------
(* Fixed-point reward arithmetic *)

\* the divisor of flat_reward_transform and of the multi-objective seh column
SehDivisor == 8

\* 1.0 in reward units of 1.25e-5
One == SehDivisor * 10000

\* clip(1e-4, 100): the lower and upper clip bounds in reward units
ClipLo == One \div 10000

ClipHi == 100 * One

----------------------------------------------------------------------------
(* Molecules.  What the external toolkit answers for a molecule is an      *)
(* attribute of the molecule: whether mol2graph gives a graph, the proxy's *)
(* prediction (possibly NaN), the k-means cluster, and the descriptors     *)
(* (each may raise, modelled as the field being None).                     *)


Molecules ==
    { [name |-> "bad",  valid |-> FALSE, nan |-> FALSE, seh |-> 0,
       cluster |-> 0, qed |-> None, sa |-> None, mw |-> None],
      [name |-> "good0", valid |-> TRUE, nan |-> FALSE, seh |-> 16 * One,
       cluster |-> 0, qed |-> Some(One \div 2), sa |-> Some(One), mw |-> Some(300)],
      [name |-> "good1", valid |-> TRUE, nan |-> FALSE, seh |-> 4 * One,
       cluster |-> 1, qed |-> Some(One), sa |-> Some(10 * One), mw |-> Some(650)],
      [name |-> "nan0", valid |-> TRUE, nan |-> TRUE, seh |-> 0,
       cluster |-> 0, qed |-> None, sa |-> Some(5 * One + One \div 2), mw |-> Some(1350)],
      [name |-> "neg1", valid |-> TRUE, nan |-> FALSE, seh |-> 0 - 8 * One,
       cluster |-> 1, qed |-> Some(0), sa |-> None, mw |-> None],
      [name |-> "big1", valid |-> TRUE, nan |-> FALSE, seh |-> 1600 * One,
       cluster |-> 1, qed |-> Some(One \div 4), sa |-> Some(One), mw |-> Some(20)] }

\* bengio2021flow.mol2graph(i) is not None
Mol2GraphOk(m) == m.valid

\* KMeansClassifier.__call__: one cluster id per input molecule, valid or not
kmeans_classify(inputs) == [i \in 1..Len(inputs) |-> inputs[i].cluster]

\* safe that answers 0 for every failure, whatever default it was given
safe_zero_default(fx, default) == IF IsNone(fx) THEN 0 ELSE The(fx)

\* safe(f, x, default): f(x), or default when f raises
safe(fx, default) == IF IsNone(fx) THEN default ELSE The(fx)

----------------------------------------------------------------------------
(* The task object *)

ObjectiveNames == {"seh", "qed", "sa", "mw"}

\* x in objectives (a Python list)
InList(x, l) == \E i \in DOMAIN l : l[i] = x

\* len(objectives) == len(set(objectives))
NoDuplicates(l) == \A i, j \in DOMAIN l : l[i] = l[j] => i = j

\* The hyperparameters a task is built from (SEHFragTrainer.setup_task,
\* SEHMOOFragTrainer.setup_task); state is "unbuilt" until __init__ has run.
TaskHps(cls, part, objectives, dist, params, thermo) ==
    [ state |-> "unbuilt", cls |-> cls,
      part |-> part, total_parts |-> IF IsNone(part) THEN None ELSE Some(TotalParts),
      objectives |-> objectives,
      temperature_sample_dist |-> dist, temperature_dist_params |-> params,
      use_pref_thermometer |-> thermo,
      seeded_preference |-> None, experimental_dirichlet |-> FALSE ]

\* SEHTask.__init__: stores its arguments; nothing is validated.
SEHTaskInit(t) == [t EXCEPT !.state = "built"]

\* SEHMOOTask.__init__: stores its arguments, then asserts that the objectives are
\* known names without duplicates.
SEHMOOTaskInit(t) ==
    IF (\A i \in DOMAIN t.objectives : t.objectives[i] \in ObjectiveNames)
       /\ NoDuplicates(t.objectives)
    THEN [t EXCEPT !.state = "built", !.seeded_preference = None,
                   !.experimental_dirichlet = FALSE]
    ELSE [t EXCEPT !.state = "error"]

TaskInit(t) == IF t.cls = "SEHTask" THEN SEHTaskInit(t) ELSE SEHMOOTaskInit(t)

\* the number of columns of FlatRewards the configuration asks for
NumObjectives(t) == IF t.cls = "SEHTask" THEN 1 ELSE Len(t.objectives)

----------------------------------------------------------------------------
(* compute_flat_rewards *)

RaisedRewards(is_valid, logged) ==
    [status |-> "raise", rows |-> <<>>, ncols |-> 0, is_valid |-> is_valid,
     logged |-> logged]

\* wandb.log(to_log) of SEHTask.compute_flat_rewards: counts[self.part] and sum(counts)
PartFraction(parts, part) ==
    <<Cardinality({i \in DOMAIN parts : parts[i] = part}), Len(parts)>>

\* preds[parts != self.part] = 0: a boolean mask over a tensor. The mask has one
\* entry per input molecule, preds one per valid molecule; torch raises IndexError
\* when the two lengths differ.
MaskFits(parts, preds) == Len(parts) = Len(preds)

ZeroOtherParts(preds, parts, part) ==
    [i \in DOMAIN preds |-> IF parts[i] # part THEN 0 ELSE preds[i]]

\* SEHTask.flat_reward_transform: y / 8
flat_reward_transform(y) == y \div SehDivisor

\* SEHTask.compute_flat_rewards(mols), with wandb.run set or not
SEHComputeFlatRewards(t, mols, wandb_run) ==
    LET is_valid == [i \in 1..Len(mols) |-> Mol2GraphOk(mols[i])]
        graphs   == Compress(mols, is_valid)
        preds0   == [i \in 1..Len(graphs) |-> IF graphs[i].nan THEN 0 ELSE graphs[i].seh]
        parts    == kmeans_classify(mols)
        logged   == IF ~IsNone(t.part) /\ wandb_run
                    THEN Some(PartFraction(parts, The(t.part))) ELSE None
        preds1   == IF IsNone(t.part) THEN preds0
                    ELSE ZeroOtherParts(preds0, parts, The(t.part))
    IN  IF CountTrue(is_valid) = 0
        THEN [status |-> "ok", rows |-> <<>>, ncols |-> 1, is_valid |-> is_valid,
              logged |-> None]
        ELSE IF ~IsNone(t.part) /\ ~MaskFits(parts, preds0)
        THEN RaisedRewards(is_valid, logged)
        ELSE [status |-> "ok",
              rows |-> [i \in 1..Len(preds1) |->
                          <<Clip(flat_reward_transform(preds1[i]), ClipLo, ClipHi)>>],
              ncols |-> 1, is_valid |-> is_valid, logged |-> logged]

\* the seh column of SEHMOOTask: clip(1e-4, 100) / 8, then NaN -> 0
MooSeh(m) == IF m.nan THEN 0 ELSE Clip(m.seh, ClipLo, ClipHi) \div SehDivisor

\* safe(QED.qed, i, 0)
MooQed(m) == safe(m.qed, 0)

\* (10 - safe(sascore.calculateScore, i, 10)) / 9
MooSa(m) == (10 * One - safe(m.sa, 10 * One)) \div 9

\* ((300 - safe(Descriptors.MolWt, i, 1000)) / 700 + 1).clip(0, 1)
MooMw(m) == Clip(((300 - safe(m.mw, 1000)) * One) \div 700 + One, 0, One)

\* one row of torch.stack(flat_rewards, dim=1): the columns are appended in the
\* order seh, qed, sa, mw, whatever the order of the objectives list
MooRow(t, m) ==
    (IF InList("seh", t.objectives) THEN <<MooSeh(m)>> ELSE <<>>)
    \o (IF InList("qed", t.objectives) THEN <<MooQed(m)>> ELSE <<>>)
    \o (IF InList("sa", t.objectives) THEN <<MooSa(m)>> ELSE <<>>)
    \o (IF InList("mw", t.objectives) THEN <<MooMw(m)>> ELSE <<>>)

\* the column of torch.stack(flat_rewards, dim=1) that holds objective name: the
\* number of objectives appended up to and including it
ColumnOf(t, name) ==
    Cardinality({o \in {"seh", "qed", "sa", "mw"} :
        /\ InList(o, t.objectives)
        /\ \E i, j \in 1..4 : /\ <<"seh", "qed", "sa", "mw">>[i] = o
                              /\ <<"seh", "qed", "sa", "mw">>[j] = name
                              /\ i <= j})

\* SEHMOOTask.compute_flat_rewards(mols)
MOOComputeFlatRewards(t, mols) ==
    LET is_valid == [i \in 1..Len(mols) |-> Mol2GraphOk(mols[i])]
        graphs   == Compress(mols, is_valid)
        rows     == [i \in 1..Len(graphs) |-> MooRow(t, graphs[i])]
    IN  IF CountTrue(is_valid) = 0
        THEN [status |-> "ok", rows |-> <<>>, ncols |-> Len(t.objectives),
              is_valid |-> is_valid, logged |-> None]
        ELSE IF Len(rows[1]) = 0
        THEN RaisedRewards(is_valid, None)
        ELSE [status |-> "ok", rows |-> rows, ncols |-> Len(rows[1]),
              is_valid |-> is_valid, logged |-> None]

ComputeFlatRewards(t, mols, wandb_run) ==
    IF t.cls = "SEHTask" THEN SEHComputeFlatRewards(t, mols, wandb_run)
    ELSE MOOComputeFlatRewards(t, mols)

NoRewards ==
    [called |-> FALSE, mols |-> <<>>, status |-> "none", rows |-> <<>>, ncols |-> 0,
     is_valid |-> <<>>, logged |-> None]

----------------------------------------------------------------------------
(* Conditioning: temperatures, preferences and their encodings *)

\* 1.0 in temperature units of a quarter
BOne == 2 * 2

\* 1.0 in encoding units
EncOne == 12 * PrefOne

SupportedDists == {"constant", "gamma", "uniform", "loguniform", "beta"}

\* gflownet.utils.transforms.thermometer(v, n_bins, vmin, vmax) for one scalar v:
\* entry i (from 0) is clip((v - vmin) / (vmax - vmin) * n_bins - i, 0, 1)
thermometer(v, n_bins, vmin, vmax) ==
    [k \in 1..n_bins |->
        Clip(((v - vmin) * n_bins * EncOne) \div (vmax - vmin) - (k - 1) * EncOne,
             0, EncOne)]

RECURSIVE Flatten(_)
\* reshape(n, -1) of one row of vectors: their concatenation
Flatten(ss) == IF ss = <<>> THEN <<>> ELSE Head(ss) \o Flatten(Tail(ss))

\* thermometer(preferences, d, 0, 1).reshape(n, -1), one row
PrefThermometer(p) ==
    Flatten([j \in 1..Len(p) |-> thermometer(p[j], NumThermometerDim, 0, PrefOne)])

\* a preference row used raw as an encoding
PrefRaw(p) == [j \in 1..Len(p) |-> (p[j] * EncOne) \div PrefOne]

PreferencesEnc(t, p) == IF t.use_pref_thermometer THEN PrefThermometer(p) ELSE PrefRaw(p)

RECURSIVE SumSeq(_)
SumSeq(s) == IF s = <<>> THEN 0 ELSE Head(s) + SumSeq(Tail(s))

\* what a Dirichlet sampler over m objectives can return: the grid points of the simplex
Simplex(m) == {p \in [1..m -> 0..PrefOne] : SumSeq(p) = PrefOne}

\* scipy.stats.gamma.ppf(0.95, a, scale=scale) for integer shape a, in hundredths of
\* the scale: 2.996, 4.744, 6.296, 7.754
GammaPpf95(a, scale) ==
    LET q == <<300, 474, 630, 775>>
    IN  (q[Min(a, Len(q))] * scale) \div 100

\* temperature_dist_params is a float (one number) or a pair
IsFloat(params) == Len(params) = 1

\* the upper bound sample_conditional_information encodes beta against
UpperBound(dist, params) ==
    CASE dist = "gamma" -> GammaPpf95(params[1], params[2])
      [] dist = "uniform" -> params[2]
      [] dist = "loguniform" -> params[2]
      [] dist = "beta" -> BOne

\* the values the generator can draw for one beta
BetaDraws(dist, params) ==
    CASE dist = "gamma" -> {params[2] \div 2, 2 * UpperBound(dist, params)}
      [] dist = "uniform" -> {params[1], (params[1] + params[2]) \div 2}
      [] dist = "loguniform" -> {params[1], (params[1] + params[2]) \div 2}
      [] dist = "beta" -> {BOne \div 4, BOne \div 2}
      [] OTHER -> {0}

NoCondInfo ==
    [src |-> "none", status |-> "none", beta |-> <<>>, encoding |-> <<>>,
     has_prefs |-> FALSE, preferences |-> <<>>]

RaisedCondInfo(src) == [NoCondInfo EXCEPT !.src = src, !.status = "raise"]

\* SEHTask.sample_conditional_information(n); draws are the n values the generator
\* returns. An unsupported family leaves beta = None and upper_bound unbound, and
\* torch.tensor(beta) raises.
SEHSampleCond(t, n, draws) ==
    LET dist   == t.temperature_sample_dist
        params == t.temperature_dist_params
    IN  IF dist = "constant"
        THEN IF ~IsFloat(params) THEN RaisedCondInfo("sample")
             ELSE [src |-> "sample", status |-> "ok",
                   beta |-> [i \in 1..n |-> params[1]],
                   encoding |-> [i \in 1..n |-> [k \in 1..NumThermometerDim |-> 0]],
                   has_prefs |-> FALSE, preferences |-> <<>>]
        ELSE IF dist \notin SupportedDists \/ IsFloat(params)
        THEN RaisedCondInfo("sample")
        ELSE [src |-> "sample", status |-> "ok",
              beta |-> draws,
              encoding |-> [i \in 1..n |->
                  thermometer(draws[i], NumThermometerDim, 0, UpperBound(dist, params))],
              has_prefs |-> FALSE, preferences |-> <<>>]

\* SEHMOOTask.sample_conditional_information(n); prefs are the n rows the Dirichlet
\* sampler returns (unused when a seeded preference is set)
MOOSampleCond(t, n, draws, prefs) ==
    LET c == SEHSampleCond(t, n, draws)
        preferences == IF ~IsNone(t.seeded_preference)
                       THEN [i \in 1..n |-> The(t.seeded_preference)]
                       ELSE prefs
    IN  IF c.status = "raise" THEN c
        ELSE [c EXCEPT !.encoding = [i \in 1..n |->
                                        c.encoding[i] \o PreferencesEnc(t, preferences[i])],
                       !.has_prefs = TRUE,
                       !.preferences = preferences]

\* SEHMOOTask.encode_conditional_information(preferences)
MOOEncodeCond(t, preferences) ==
    LET n      == Len(preferences)
        dist   == t.temperature_sample_dist
        params == t.temperature_dist_params
    IN  IF dist # "constant" /\ IsFloat(params) THEN RaisedCondInfo("encode")
        ELSE [src |-> "encode", status |-> "ok",
              beta |-> [i \in 1..n |-> params[Len(params)]],
              encoding |-> [i \in 1..n |->
                  [k \in 1..NumThermometerDim |-> IF dist = "constant" THEN 0 ELSE EncOne]
                  \o PreferencesEnc(t, preferences[i])],
              has_prefs |-> TRUE, preferences |-> preferences]

\* the arguments the generator's draws range over for a batch of n
BetaDrawSeqs(t, n) ==
    [1..n -> BetaDraws(t.temperature_sample_dist, t.temperature_dist_params)]

PrefDrawSeqs(t, n) ==
    IF t.cls = "SEHTask" \/ ~IsNone(t.seeded_preference) THEN {<<>>}
    ELSE [1..n -> Simplex(Len(t.objectives))]

SampleCond(t, n, draws, prefs) ==
    IF t.cls = "SEHTask" THEN SEHSampleCond(t, n, draws)
    ELSE MOOSampleCond(t, n, draws, prefs)

----------------------------------------------------------------------------
(* SEHMOOFragTrainer.setup: the fixed validation preference vectors *)

PreferenceTypes == {"none", "dirichlet", "seeded_single", "seeded_many"}

\* metrics.partition_hypersphere(d, k, normalisation="l1"): k points, each
\* normalised to l1 norm 1
partition_hypersphere(points) == points

\* valid_preferences of setup, by hps["preference_type"] ("none" is Python's None);
\* points are the n_valid_prefs rows the generator or the partition returns
ValidPreferences(ptype, n_obj, points) ==
    CASE ptype = "none" ->
            [k \in 1..NValidPrefs |-> [j \in 1..n_obj |-> PrefOne]]
      [] ptype = "dirichlet" -> partition_hypersphere(points)
      [] ptype = "seeded_single" -> <<points[1]>>
      [] ptype = "seeded_many" -> points

\* self.task.seeded_preference after setup
SeededPreference(ptype, prefs) ==
    IF ptype = "seeded_single" THEN Some(prefs[1]) ELSE None

NoValidPrefs == [state |-> "unset", ptype |-> "none", rows |-> <<>>]

\* hps["n_valid_repeats_per_pref"]
Repeats == 0..MaxRepeat

\* no dataset yet
NoTestData ==
    [state |-> "unset", prefs |-> <<>>, repeat |-> 0, idx |-> 0, status |-> "none",
     item |-> <<>>]

\* RepeatedPreferenceDataset.__init__(preferences, repeat)
RepeatedPreferenceDataset(preferences, repeat) ==
    [NoTestData EXCEPT !.state = "built", !.prefs = preferences, !.repeat = repeat]

\* RepeatedPreferenceDataset.__len__
DatasetLen(ds) == Len(ds.prefs) * ds.repeat

\* __getitem__ that cycles through the preferences instead of repeating each
RepeatedGetItemCycling(ds, idx) ==
    IF ~(0 <= idx /\ idx < DatasetLen(ds))
    THEN [status |-> "assert", item |-> <<>>]
    ELSE [status |-> "ok", item |-> ds.prefs[(idx % Len(ds.prefs)) + 1]]

\* RepeatedPreferenceDataset.__getitem__(idx): prefs is indexed from 0 in the code and
\* from 1 here
RepeatedGetItem(ds, idx) ==
    IF ~(0 <= idx /\ idx < DatasetLen(ds))
    THEN [status |-> "assert", item |-> <<>>]
    ELSE [status |-> "ok", item |-> ds.prefs[(idx \div ds.repeat) + 1]]

----------------------------------------------------------------------------
(* cond_info_to_logreward *)

\* the shape two dimensions broadcast to; 0 - 1 when they cannot be broadcast
BroadcastDim(a, b) ==
    IF a = b THEN a ELSE IF a = 1 THEN b ELSE IF b = 1 THEN a ELSE 0 - 1

\* index i of a broadcast result, read in an operand of length len
BIdx(i, len) == IF len = 1 THEN 1 ELSE i

\* clamp(min=1e-30): 1e-30 is below the fixed-point unit and is written 0
ClampEps(x) == Max(x, 0)

\* one entry of the result: log(arg) * beta, kept symbolic
LogTimes(arg, b) == [arg |-> arg, beta |-> b]

NoLogReward ==
    [called |-> FALSE, status |-> "none", scalar_shape |-> <<>>, beta_shape |-> <<>>,
     shape |-> <<>>, values |-> <<>>]

\* the outcome of the assert on the ranks and of scalar_logreward * cond_info["beta"]
\* for a scalar_logreward of the given shape (0-D or 1-D) and entries
ScaleByBeta(scalar_shape, scalar, beta) ==
    LET beta_shape == <<Len(beta)>>
        base == [NoLogReward EXCEPT !.called = TRUE, !.scalar_shape = scalar_shape,
                                    !.beta_shape = beta_shape]
        k    == IF Len(scalar_shape) = 0 THEN 1 ELSE scalar_shape[1]
        r    == BroadcastDim(k, Len(beta))
    IN  IF Len(scalar_shape) # Len(beta_shape) THEN [base EXCEPT !.status = "assert"]
        ELSE IF r < 0 THEN [base EXCEPT !.status = "raise"]
        ELSE [base EXCEPT !.status = "ok", !.shape = <<r>>,
                          !.values = [i \in 1..r |->
                              LogTimes(scalar[BIdx(i, k)], beta[BIdx(i, Len(beta))])]]

\* torch.Tensor.squeeze() on a shape: every dimension of size 1 is dropped
RECURSIVE Squeeze(_)
Squeeze(shape) ==
    IF shape = <<>> THEN <<>>
    ELSE IF Head(shape) = 1 THEN Squeeze(Tail(shape))
         ELSE <<Head(shape)>> \o Squeeze(Tail(shape))

\* SEHTask.cond_info_to_logreward(cond_info, flat_reward), flat_reward of shape (k, 1)
SEHCondInfoToLogreward(ci, flat) ==
    LET k == Len(flat.rows)
    IN  ScaleByBeta(Squeeze(<<k, flat.ncols>>),
                    [i \in 1..k |-> ClampEps(flat.rows[i][1])], ci.beta)

\* SEHMOOTask.cond_info_to_logreward(cond_info, flat_reward):
\* (flat_reward * preferences).sum(1), then as above
MOOCondInfoToLogreward(ci, flat) ==
    LET k  == Len(flat.rows)
        np == Len(ci.preferences)
        c  == flat.ncols
        m  == IF np = 0 THEN 0 ELSE Len(ci.preferences[1])
        r  == BroadcastDim(k, np)
        w  == BroadcastDim(c, m)
        prod(i, j) == flat.rows[BIdx(i, k)][BIdx(j, c)] * ci.preferences[BIdx(i, np)][BIdx(j, m)]
    IN  IF r < 0 \/ w < 0
        THEN [NoLogReward EXCEPT !.called = TRUE, !.status = "raise",
                                 !.beta_shape = <<Len(ci.beta)>>]
        ELSE ScaleByBeta(<<r>>,
                         [i \in 1..r |-> ClampEps(SumSeq([j \in 1..w |-> prod(i, j)]))],
                         ci.beta)

CondInfoToLogreward(t, ci, flat) ==
    IF t.cls = "SEHTask" THEN SEHCondInfoToLogreward(ci, flat)
    ELSE MOOCondInfoToLogreward(ci, flat)

----------------------------------------------------------------------------
(* SEHFragTrainer: the gradient step *)

\* sampling_tau is counted in tenths: 9 is tau = 0.9
TauDen == 2 * 5

RECURSIVE Pow(_, _)
Pow(b, e) == IF e = 0 THEN 1 ELSE b * Pow(b, e - 1)

\* 1.0 in parameter units: fine enough for MaxSteps moving averages to be exact
POne == Pow(TauDen, MaxSteps)

\* hps["clip_grad_param"]
ClipGradParam == 10

ClipGradTypes == {"value", "norm", "none"}

\* self.model.parameters(): parameter 1 is a policy weight with two elements,
\* parameter 2 is logZ with one element
InitialModel == << <<POne, 0 - 2 * POne>>, <<3 * POne>> >>

\* Z_params = list(self.model.logZ.parameters())
ZParams == {2}

\* non_Z_params: every parameter that is not (by identity) one of Z_params
NonZParams == (DOMAIN InitialModel) \ ZParams

\* the values an element of a gradient takes after loss.backward()
GradVals == {0 - 16, 6, 12}

\* the gradients loss.backward() can leave: one vector per parameter
Gradients ==
    {g \in [DOMAIN InitialModel -> SeqsUpTo(GradVals, 2)] :
        \A i \in DOMAIN InitialModel : Len(g[i]) = Len(InitialModel[i])}

Abs(x) == IF x < 0 THEN 0 - x ELSE x

Sign(x) == IF x < 0 THEN 0 - 1 ELSE IF x > 0 THEN 1 ELSE 0

NormSq(g) == SumSeq([e \in DOMAIN g |-> g[e] * g[e]])

\* the norm of g rounded up to a whole unit
NormCeil(g) ==
    CHOOSE r \in 0..SumSeq([e \in DOMAIN g |-> Abs(g[e])]) :
        r * r >= NormSq(g) /\ (r = 0 \/ (r - 1) * (r - 1) < NormSq(g))

\* torch.nn.utils.clip_grad_value_(p, c): every element clamped to [-c, c]
clip_grad_value_(g, c) == [e \in DOMAIN g |-> Clip(g[e], 0 - c, c)]

\* torch.nn.utils.clip_grad_norm_(p, c) on the gradient of ONE parameter: scaled by
\* min(1, c / (norm + 1e-6)); the scaled elements are rounded toward zero
clip_grad_norm_(g, c) ==
    IF NormSq(g) <= c * c THEN g
    ELSE [e \in DOMAIN g |-> Sign(g[e]) * ((Abs(g[e]) * c) \div NormCeil(g))]

\* self.clip_grad_callback, chosen by hps["clip_grad_type"], on one parameter
clip_grad_callback(type, g, c) ==
    CASE type = "value" -> clip_grad_value_(g, c)
      [] type = "norm" -> clip_grad_norm_(g, c)
      [] type = "none" -> g

\* for i in self.model.parameters(): self.clip_grad_callback(i)
ClipAll(type, grad, c) == [i \in DOMAIN grad |-> clip_grad_callback(type, grad[i], c)]

\* torch.optim.Adam.step on the parameters of one group: each element moves one
\* unit against the sign of its gradient (Adam's normalised update)
AdamStep(model, grad, group) ==
    [i \in DOMAIN model |->
        IF i \in group /\ grad[i] # <<>>
        THEN [e \in DOMAIN model[i] |-> model[i][e] - POne * Sign(grad[i][e])]
        ELSE model[i]]

\* zero_grad that clears nothing
ZeroGradNothing(grad, group) == grad

\* optimizer.zero_grad(): the gradients of the group's parameters are cleared
ZeroGrad(grad, group) == [i \in DOMAIN grad |-> IF i \in group THEN <<>> ELSE grad[i]]

\* setup: the sampling model is a deep copy when sampling_tau > 0, else the model itself
SamplingRef(tau) == IF tau > 0 THEN "copy" ELSE "model"

\* the moving average with the two weights exchanged
EmaElementSwapped(tau, a, b) == (tau * a + (TauDen - tau) * b) \div TauDen

\* b.data.mul_(tau).add_(a.data * (1 - tau)) for one pair (a trained, b sampling)
EmaElement(tau, a, b) == (tau * b + (TauDen - tau) * a) \div TauDen

\* for a, b in zip(self.model.parameters(), self.sampling_model.parameters())
EmaUpdate(tau, model, sampling) ==
    [i \in DOMAIN sampling |->
        [e \in DOMAIN sampling[i] |-> EmaElement(tau, model[i][e], sampling[i][e])]]

\* self.sampling_model.parameters()
SamplingParams(tr) == IF tr.sampling_ref = "model" THEN tr.model ELSE tr.sampling_copy

NoGrad == [i \in DOMAIN InitialModel |-> <<>>]

\* the trainer after setup(), before the first step
TrainerAfterSetup(tau, clip_type) ==
    [ pc |-> "idle", steps |-> 0,
      sampling_tau |-> tau, clip_grad_type |-> clip_type,
      model |-> InitialModel,
      sampling_ref |-> SamplingRef(tau), sampling_copy |-> InitialModel,
      grad |-> NoGrad, grad_raw |-> NoGrad,
      model_old |-> InitialModel, sampling_old |-> InitialModel,
      opt_steps |-> 0, opt_Z_steps |-> 0, sched_steps |-> 0, sched_Z_steps |-> 0,
      trace |-> <<>> ]

\* "max_nodes": 9 of default_hps
DefaultMaxNodes == 9

\* max_frags=9 of SEHMOOFragTrainer.setup_env_context
MooMaxFrags == 9

\* the values hps["max_nodes"] is configured with: the default and its neighbours
MaxNodesValues == (DefaultMaxNodes - MaxNodesSpread)..(DefaultMaxNodes + MaxNodesSpread)

\* the algorithms SEHMOOFragTrainer.setup_algo knows
Algos == {"TB", "SQL", "A2C", "MOREINFORCE", "MOQL"}

\* before setup_env_context and setup_algo; hps_max_nodes and hps_algo are
\* hps["max_nodes"] and hps["algo"], max_nodes is the bound given to the algorithm
NoCtx ==
    [state |-> "unset", hps_max_nodes |-> DefaultMaxNodes, hps_algo |-> "TB",
     max_frags |-> 0, num_cond_dim |-> 0, max_nodes |-> 0]

\* num_cond_dim of setup_env_context, from the hps the task is later built with
NumCondDim(t) ==
    IF t.cls = "SEHTask" THEN NumThermometerDim
    ELSE IF t.use_pref_thermometer
         THEN NumThermometerDim * (1 + Len(t.objectives))
         ELSE NumThermometerDim + Len(t.objectives)

\* max_frags of setup_env_context
MaxFrags(t, hps_max_nodes) == IF t.cls = "SEHTask" THEN hps_max_nodes ELSE MooMaxFrags

\* self.setup_env_context()
SetupEnvContext ==
    /\ ctx.state = "unset"
    /\ task.state = "unbuilt"
    /\ ctx' = [ctx EXCEPT !.state = "ctx",
                          !.max_frags = MaxFrags(task, ctx.hps_max_nodes),
                          !.num_cond_dim = NumCondDim(task)]
    /\ UNCHANGED <<task, rew, cond_info, logrew, valid_prefs, trainer, launch, test_data>>

\* self.setup_algo(): SEHFragTrainer always builds TrajectoryBalance; SEHMOOFragTrainer
\* builds the algorithm hps["algo"] names and leaves self.algo unset for any other
\* name, which the rest of setup cannot survive
SetupAlgo ==
    /\ ctx.state = "ctx"
    /\ ctx' = IF task.cls = "SEHMOOTask" /\ ctx.hps_algo \notin Algos
              THEN [ctx EXCEPT !.state = "error"]
              ELSE [ctx EXCEPT !.state = "algo", !.max_nodes = ctx.hps_max_nodes]
    /\ UNCHANGED <<task, rew, cond_info, logrew, valid_prefs, trainer, launch, test_data>>

\* a trainer that is not part of the run
NoTrainer == [TrainerAfterSetup(0, "none") EXCEPT !.pc = "absent"]

\* loss.backward()
Backward ==
    /\ trainer.pc = "idle"
    /\ trainer.steps < MaxSteps
    /\ \E g \in Gradients :
         trainer' = [trainer EXCEPT !.pc = "clip", !.grad = g, !.grad_raw = g,
                                    !.model_old = trainer.model,
                                    !.sampling_old = SamplingParams(trainer),
                                    !.trace = <<"backward">>]
    /\ UNCHANGED <<task, rew, cond_info, logrew, valid_prefs, launch, test_data, ctx>>

\* the clipping loop over every parameter
ClipGrads ==
    /\ trainer.pc = "clip"
    /\ trainer' = [trainer EXCEPT !.pc = "opt_step",
                       !.grad = ClipAll(trainer.clip_grad_type, trainer.grad, ClipGradParam),
                       !.trace = Append(trainer.trace, "clip")]
    /\ UNCHANGED <<task, rew, cond_info, logrew, valid_prefs, launch, test_data, ctx>>

\* self.opt.step()
OptStep ==
    /\ trainer.pc = "opt_step"
    /\ trainer' = [trainer EXCEPT !.pc = "opt_zero_grad",
                       !.model = AdamStep(trainer.model, trainer.grad, NonZParams),
                       !.opt_steps = @ + 1,
                       !.trace = Append(trainer.trace, "opt.step")]
    /\ UNCHANGED <<task, rew, cond_info, logrew, valid_prefs, launch, test_data, ctx>>

\* self.opt.zero_grad()
OptZeroGrad ==
    /\ trainer.pc = "opt_zero_grad"
    /\ trainer' = [trainer EXCEPT !.pc = "opt_Z_step",
                       !.grad = ZeroGrad(trainer.grad, NonZParams),
                       !.trace = Append(trainer.trace, "opt.zero_grad")]
    /\ UNCHANGED <<task, rew, cond_info, logrew, valid_prefs, launch, test_data, ctx>>

\* self.opt_Z.step()
OptZStep ==
    /\ trainer.pc = "opt_Z_step"
    /\ trainer' = [trainer EXCEPT !.pc = "opt_Z_zero_grad",
                       !.model = AdamStep(trainer.model, trainer.grad, ZParams),
                       !.opt_Z_steps = @ + 1,
                       !.trace = Append(trainer.trace, "opt_Z.step")]
    /\ UNCHANGED <<task, rew, cond_info, logrew, valid_prefs, launch, test_data, ctx>>

\* self.opt_Z.zero_grad()
OptZZeroGrad ==
    /\ trainer.pc = "opt_Z_zero_grad"
    /\ trainer' = [trainer EXCEPT !.pc = "lr_sched",
                       !.grad = ZeroGrad(trainer.grad, ZParams),
                       !.trace = Append(trainer.trace, "opt_Z.zero_grad")]
    /\ UNCHANGED <<task, rew, cond_info, logrew, valid_prefs, launch, test_data, ctx>>

\* self.lr_sched.step()
LrSchedStep ==
    /\ trainer.pc = "lr_sched"
    /\ trainer' = [trainer EXCEPT !.pc = "lr_sched_Z", !.sched_steps = @ + 1,
                       !.trace = Append(trainer.trace, "lr_sched.step")]
    /\ UNCHANGED <<task, rew, cond_info, logrew, valid_prefs, launch, test_data, ctx>>

\* self.lr_sched_Z.step()
LrSchedZStep ==
    /\ trainer.pc = "lr_sched_Z"
    /\ trainer' = [trainer EXCEPT !.pc = "ema", !.sched_Z_steps = @ + 1,
                       !.trace = Append(trainer.trace, "lr_sched_Z.step")]
    /\ UNCHANGED <<task, rew, cond_info, logrew, valid_prefs, launch, test_data, ctx>>

\* if self.sampling_tau > 0: the moving average of the sampling model; then step returns
EmaAndReturn ==
    /\ trainer.pc = "ema"
    /\ trainer' =
         IF trainer.sampling_tau > 0
         THEN [trainer EXCEPT !.pc = "idle", !.steps = @ + 1,
                  !.sampling_copy =
                      IF trainer.sampling_ref = "copy"
                      THEN EmaUpdate(trainer.sampling_tau, trainer.model, trainer.sampling_copy)
                      ELSE @,
                  !.model =
                      IF trainer.sampling_ref = "model"
                      THEN EmaUpdate(trainer.sampling_tau, trainer.model, trainer.model)
                      ELSE @,
                  !.trace = Append(trainer.trace, "ema")]
         ELSE [trainer EXCEPT !.pc = "idle", !.steps = @ + 1]
    /\ UNCHANGED <<task, rew, cond_info, logrew, valid_prefs, launch, test_data, ctx>>

----------------------------------------------------------------------------
(* The launchers: job.py (module level) and seh_frag.main() *)

\* the directories a launch can name
Paths == {"logs", "data"}

\* a directory is absent, or exists empty, or exists with files in it
DirStates == {"absent", "empty", "full"}

\* os.path.exists
Exists(fs, path) == fs[path] # "absent"

\* shutil.rmtree
RmTree(fs, path) == [fs EXCEPT ![path] = "absent"]

\* os.makedirs
MakeDirs(fs, path) == [fs EXCEPT ![path] = "empty"]

\* 'overwrite_existing_exp': True in the hps literal of both launchers
OverwriteExistingExp == TRUE

\* the hps literal of job.py (lines 19-38); offline_ratio is counted in hundredths
JobHps(log_dir, data_dir) ==
    [ log_dir |-> log_dir, data_dir |-> data_dir,
      overwrite_existing_exp |-> OverwriteExistingExp,
      part |-> None, total_parts |-> None, offline_ratio |-> 0,
      check_data_dir |-> TRUE ]

\* the hps literal of seh_frag.main() (lines 293-303): no data_dir, no partition
MainHps(log_dir) ==
    [ log_dir |-> log_dir, data_dir |-> None,
      overwrite_existing_exp |-> OverwriteExistingExp,
      part |-> None, total_parts |-> None, offline_ratio |-> 0,
      check_data_dir |-> FALSE ]

\* job.py lines 40-44 take the sharded branch
Sharded(args) ==
    /\ ~IsNone(args.part) /\ ~IsNone(args.total_parts)
    /\ The(args.total_parts) > 1

\* job.py lines 42-44: part and total_parts are stored, then hps.upate(...) raises
\* AttributeError (a dict has no method upate) and the script ends
ShardedHps(hps, args) ==
    [hps EXCEPT !.part = args.part, !.total_parts = args.total_parts]

\* the condition under which an existing log directory is deleted
\* (job.py line 47; seh_frag.py line 305)
MayOverwrite(hps) ==
    /\ hps.overwrite_existing_exp
    /\ (hps.check_data_dir => Some(hps.log_dir) # hps.data_dir)

NoLaunch ==
    [ launcher |-> "none", pc |-> "absent", error |-> "none",
      args |-> [part |-> None, total_parts |-> None],
      hps |-> MainHps("logs"),
      fs |-> [q \in Paths |-> "absent"], fs0 |-> [q \in Paths |-> "absent"] ]

\* job.py lines 40-44
ShardOverride ==
    /\ launch.pc = "shard"
    /\ launch' =
         IF launch.launcher = "job" /\ Sharded(launch.args)
         THEN [launch EXCEPT !.hps = ShardedHps(launch.hps, launch.args),
                             !.pc = "error", !.error = "AttributeError"]
         ELSE [launch EXCEPT !.pc = "logdir"]
    /\ UNCHANGED <<task, rew, cond_info, logrew, valid_prefs, trainer, test_data, ctx>>

\* job.py lines 46-51; seh_frag.py lines 304-309
LogDirHandling ==
    /\ launch.pc = "logdir"
    /\ launch' =
         IF Exists(launch.fs, launch.hps.log_dir)
         THEN IF MayOverwrite(launch.hps)
              THEN [launch EXCEPT !.pc = "trainer",
                       !.fs = MakeDirs(RmTree(launch.fs, launch.hps.log_dir),
                                       launch.hps.log_dir)]
              ELSE [launch EXCEPT !.pc = "error", !.error = "ValueError"]
         ELSE [launch EXCEPT !.pc = "trainer",
                  !.fs = MakeDirs(launch.fs, launch.hps.log_dir)]
    /\ UNCHANGED <<task, rew, cond_info, logrew, valid_prefs, trainer, test_data, ctx>>

\* trial = SEHFragTrainer(hps, device)
ConstructTrainer ==
    /\ launch.pc = "trainer"
    /\ launch' = [launch EXCEPT !.pc = "constructed"]
    /\ UNCHANGED <<task, rew, cond_info, logrew, valid_prefs, trainer, test_data, ctx>>

----------------------------------------------------------------------------
(* The task's operations as actions *)

\* SEHTask(...) / SEHMOOTask(...): setup_task
Construct ==
    /\ task.state = "unbuilt"
    /\ task' = TaskInit(task)
    /\ UNCHANGED <<rew, cond_info, logrew, valid_prefs, trainer, launch, test_data, ctx>>

\* self.setup_task(), after setup_env_context and setup_algo
SetupTask == ctx.state = "algo" /\ Construct

\* wandb.run is not None; it is read only by a task with a partition
WandbRuns(t) == IF IsNone(t.part) THEN {FALSE} ELSE BOOLEAN

\* task.compute_flat_rewards(mols)
ComputeRewards ==
    /\ task.state = "built"
    /\ \E mols \in SeqsUpTo(Molecules, MaxMols), wandb_run \in WandbRuns(task) :
         LET r == ComputeFlatRewards(task, mols, wandb_run)
         IN  rew' = [called |-> TRUE, mols |-> mols, status |-> r.status,
                     rows |-> r.rows, ncols |-> r.ncols, is_valid |-> r.is_valid,
                     logged |-> r.logged]
    /\ logrew' = NoLogReward
    /\ UNCHANGED <<task, cond_info, valid_prefs, trainer, launch, test_data, ctx>>

\* task.sample_conditional_information(n)
SampleCondInfo ==
    /\ task.state = "built"
    /\ \E n \in 1..MaxBatch :
         \E draws \in BetaDrawSeqs(task, n), prefs \in PrefDrawSeqs(task, n) :
            cond_info' = SampleCond(task, n, draws, prefs)
    /\ logrew' = NoLogReward
    /\ UNCHANGED <<task, rew, valid_prefs, trainer, launch, test_data, ctx>>

\* SEHMOOFragTrainer.setup, lines 238-257: the validation preferences are fixed
\* and, for "seeded_single", the task's seeded preference is set
SetupValidPrefs ==
    /\ task.state = "built"
    /\ task.cls = "SEHMOOTask"
    /\ valid_prefs.state = "unset"
    /\ \E ptype \in PreferenceTypes, repeat \in Repeats :
         \E points \in [1..NValidPrefs -> Simplex(Len(task.objectives))] :
            LET rows == ValidPreferences(ptype, Len(task.objectives), points)
            IN  /\ valid_prefs' = [state |-> "set", ptype |-> ptype, rows |-> rows]
                /\ task' = [task EXCEPT !.seeded_preference = SeededPreference(ptype, rows)]
                /\ test_data' = RepeatedPreferenceDataset(rows, repeat)
    /\ UNCHANGED <<rew, cond_info, logrew, trainer, launch, ctx>>

\* self.test_data[idx]: one lookup in the validation dataset, at an index inside or
\* just outside its range
GetItem ==
    /\ test_data.state = "built"
    /\ \E idx \in (0 - 1)..(DatasetLen(test_data) + 1) :
         LET r == RepeatedGetItem(test_data, idx)
         IN  test_data' = [test_data EXCEPT !.idx = idx, !.status = r.status,
                                            !.item = r.item]
    /\ UNCHANGED <<task, rew, cond_info, logrew, valid_prefs, trainer, launch, ctx>>

\* task.encode_conditional_information(preferences) on a batch of the validation
\* dataset: each row of the batch is one of the fixed preference vectors
EncodeCondInfo ==
    /\ task.state = "built"
    /\ task.cls = "SEHMOOTask"
    /\ valid_prefs.state = "set"
    /\ \E n \in 1..MaxBatch :
         \E idx \in [1..n -> 1..Len(valid_prefs.rows)] :
            cond_info' = MOOEncodeCond(task, [i \in 1..n |-> valid_prefs.rows[idx[i]]])
    /\ logrew' = NoLogReward
    /\ UNCHANGED <<task, rew, valid_prefs, trainer, launch, test_data, ctx>>

\* task.cond_info_to_logreward(cond_info, flat_rewards) on the last conditioning
\* and the last rewards
ScalarizeRewards ==
    /\ task.state = "built"
    /\ cond_info.status = "ok"
    /\ rew.status = "ok"
    /\ logrew' = CondInfoToLogreward(task, cond_info, rew)
    /\ UNCHANGED <<task, rew, cond_info, valid_prefs, trainer, launch, test_data, ctx>>

----------------------------------------------------------------------------
(* Configurations *)

\* temperature_sample_dist with its temperature_dist_params; "normal" is a family
\* the code does not know. gamma: (shape, scale); the others in temperature units
TemperatureConfigs ==
    { <<"constant", <<32 * BOne>> >>,
      <<"gamma", <<2, BOne>> >>,
      <<"uniform", <<0, 4 * BOne>> >>,
      <<"loguniform", <<BOne, 4 * BOne>> >>,
      <<"beta", <<2 * BOne, BOne \div 2>> >>,
      <<"normal", <<0, BOne>> >> }

ObjectiveLists ==
    { <<"seh">>, <<"seh", "qed">>, <<"qed", "seh">>, <<"sa", "mw">>,
      <<"seh", "qed", "sa", "mw">> }

\* the partition of a worker: none, or one of 0 .. total_parts - 1
Parts == {None} \cup {Some(q) : q \in 0..(TotalParts - 1)}

\* the tasks whose rewards are computed
RewardTasks ==
    {TaskHps("SEHTask", q, <<>>, "constant", <<32 * BOne>>, FALSE) : q \in Parts}
    \cup {TaskHps("SEHMOOTask", None, o, "constant", <<32 * BOne>>, FALSE) :
             o \in ObjectiveLists}

\* the tasks whose conditioning is sampled and encoded
CondTasks ==
    {TaskHps("SEHTask", None, <<>>, c[1], c[2], FALSE) : c \in TemperatureConfigs}
    \cup {TaskHps("SEHMOOTask", None, o, c[1], c[2], th) :
             o \in {<<"seh">>, <<"seh", "qed">>}, c \in TemperatureConfigs,
             th \in BOOLEAN}
    \cup {TaskHps("SEHMOOTask", None, <<"seh", "seh">>, "constant", <<32 * BOne>>, FALSE)}

\* the tasks whose rewards are scalarized
ScalarTasks ==
    {TaskHps("SEHTask", None, <<>>, c[1], c[2], FALSE) :
        c \in {d \in TemperatureConfigs : d[1] \in {"constant", "uniform"}}}
    \cup {TaskHps("SEHMOOTask", None, o, "constant", <<32 * BOne>>, FALSE) :
             o \in {<<"seh">>, <<"seh", "qed">>}}

----------------------------------------------------------------------------
(* Specifications *)

InitTaskWith(tasks) ==
    /\ task \in tasks
    /\ rew = NoRewards
    /\ cond_info = NoCondInfo
    /\ logrew = NoLogReward
    /\ valid_prefs = NoValidPrefs
    /\ trainer = NoTrainer
    /\ launch = NoLaunch
    /\ test_data = NoTestData
    /\ ctx = NoCtx

\* compute_flat_rewards of a task
InitReward == InitTaskWith(RewardTasks)

NextReward == Construct \/ ComputeRewards

SpecReward == InitReward /\ [][NextReward]_vars

\* compute_flat_rewards of the multi-objective task
InitMooReward == InitTaskWith({t \in RewardTasks : t.cls = "SEHMOOTask"})

NextMooReward == Construct \/ ComputeRewards

SpecMooReward == InitMooReward /\ [][NextMooReward]_vars

\* the tasks whose validation dataset is built and read
DatasetTasks ==
    {TaskHps("SEHMOOTask", None, o, "constant", <<32 * BOne>>, FALSE) :
        o \in {<<"seh">>, <<"seh", "qed">>}}

\* the validation dataset of the multi-objective trainer
InitDataset == InitTaskWith(DatasetTasks)

NextDataset == Construct \/ SetupValidPrefs \/ GetItem

SpecDataset == InitDataset /\ [][NextDataset]_vars

\* the tasks a trainer is set up for
SetupTasks ==
    {TaskHps("SEHTask", None, <<>>, c[1], c[2], FALSE) :
        c \in {e \in TemperatureConfigs : e[1] \in {"constant", "uniform"}}}
    \cup {TaskHps("SEHMOOTask", None, o, "uniform", <<0, 4 * BOne>>, th) :
             o \in {<<"seh">>, <<"seh", "qed">>}, th \in BOOLEAN}

\* setup of a trainer: the environment context, the algorithm, the task; then the
\* conditioning the task samples
InitSetup ==
    /\ task \in SetupTasks
    /\ rew = NoRewards
    /\ cond_info = NoCondInfo
    /\ logrew = NoLogReward
    /\ valid_prefs = NoValidPrefs
    /\ trainer = NoTrainer
    /\ launch = NoLaunch
    /\ test_data = NoTestData
    /\ \E n \in MaxNodesValues, a \in Algos \cup {"FM"} :
         ctx = [NoCtx EXCEPT !.hps_max_nodes = n, !.hps_algo = a]

NextSetup == SetupEnvContext \/ SetupAlgo \/ SetupTask \/ SampleCondInfo

SpecSetup == InitSetup /\ [][NextSetup]_vars

\* the conditioning of a task: sampled for training, encoded for validation
InitCond == InitTaskWith(CondTasks)

NextCond == Construct \/ SetupValidPrefs \/ SampleCondInfo \/ EncodeCondInfo

SpecCond == InitCond /\ [][NextCond]_vars

\* one iteration's conditioning, rewards and their scalarization
InitScalar == InitTaskWith(ScalarTasks)

NextScalar == Construct \/ SampleCondInfo \/ ComputeRewards \/ ScalarizeRewards

SpecScalar == InitScalar /\ [][NextScalar]_vars

\* the gradient steps of a trainer after setup
InitTrainer ==
    /\ task = TaskHps("SEHTask", None, <<>>, "constant", <<32 * BOne>>, FALSE)
    /\ rew = NoRewards
    /\ cond_info = NoCondInfo
    /\ logrew = NoLogReward
    /\ valid_prefs = NoValidPrefs
    /\ launch = NoLaunch
    /\ test_data = NoTestData
    /\ ctx = NoCtx
    /\ \E tau \in {0, 9}, clip_type \in ClipGradTypes :
         trainer = TrainerAfterSetup(tau, clip_type)

NextTrainer ==
    \/ Backward \/ ClipGrads \/ OptStep \/ OptZeroGrad \/ OptZStep \/ OptZZeroGrad
    \/ LrSchedStep \/ LrSchedZStep \/ EmaAndReturn

SpecTrainer == InitTrainer /\ [][NextTrainer]_vars

\* a launch of job.py or of seh_frag.main()
InitLaunch ==
    /\ task = TaskHps("SEHTask", None, <<>>, "constant", <<32 * BOne>>, FALSE)
    /\ rew = NoRewards
    /\ cond_info = NoCondInfo
    /\ logrew = NoLogReward
    /\ valid_prefs = NoValidPrefs
    /\ trainer = NoTrainer
    /\ test_data = NoTestData
    /\ ctx = NoCtx
    /\ \E fs \in [Paths -> DirStates] :
         \/ \E log_dir \in Paths, data_dir \in {None} \cup {Some(q) : q \in Paths},
               part \in Parts,
               total_parts \in {None} \cup {Some(q) : q \in 1..TotalParts} :
               launch = [ launcher |-> "job", pc |-> "shard", error |-> "none",
                          args |-> [part |-> part, total_parts |-> total_parts],
                          hps |-> JobHps(log_dir, data_dir),
                          fs |-> fs, fs0 |-> fs ]
         \/ launch = [ launcher |-> "main", pc |-> "logdir", error |-> "none",
                       args |-> [part |-> None, total_parts |-> None],
                       hps |-> MainHps("logs"),
                       fs |-> fs, fs0 |-> fs ]

NextLaunch == ShardOverride \/ LogDirHandling \/ ConstructTrainer

SpecLaunch == InitLaunch /\ [][NextLaunch]_vars

----------------------------------------------------------------------------
(* Properties *)

\* the reward row of one molecule: what compute_flat_rewards answers for it alone
RewardOf(t, m) == ComputeFlatRewards(t, <<m>>, FALSE).rows[1]

\* the valid molecules of the last call, in input order
ValidMols == Compress(rew.mols, [i \in 1..Len(rew.mols) |-> Mol2GraphOk(rew.mols[i])])

\* C1: every call of compute_flat_rewards (single-objective, sharded, multi-objective;
\* all valid, mixed or all invalid molecules) returns without raising; the mask has one
\* boolean per input in input order, the rewards have one row per True entry, row i is
\* the reward of the i-th valid molecule, the column count is the objective count, and
\* with no valid molecule the result is a zero-row tensor and an all-False mask.
C1_FlatRewardsMatchMask ==
    rew.called =>
        /\ rew.status = "ok"
        /\ rew.is_valid = [i \in 1..Len(rew.mols) |-> Mol2GraphOk(rew.mols[i])]
        /\ Len(rew.rows) = CountTrue(rew.is_valid)
        /\ rew.ncols = NumObjectives(task)
        /\ \A i \in 1..Len(rew.rows) :
              /\ Len(rew.rows[i]) = rew.ncols
              /\ rew.rows[i] = RewardOf(task, ValidMols[i])
        /\ (CountTrue(rew.is_valid) = 0 => rew.rows = <<>>)

\* the task of the last call without its partition
Unsharded(t) == [t EXCEPT !.part = None, !.total_parts = None]

\* C2: in sharded mode every molecule of the batch gets a reward; it is exactly 0 when
\* the classifier puts the molecule in another partition than the worker's, and it is
\* the reward of the unsharded computation when the partitions agree.
C2_PartitionFilter ==
    (rew.called /\ task.cls = "SEHTask" /\ ~IsNone(task.part)) =>
        /\ rew.status = "ok"
        /\ Len(rew.rows) = Len(ValidMols)
        /\ \A i \in 1..Len(rew.rows) :
              IF ValidMols[i].cluster # The(task.part)
              THEN rew.rows[i][1] = 0
              ELSE rew.rows[i] = RewardOf(Unsharded(task), ValidMols[i])

\* C3: for every batch size n >= 1, conditioning sampled for n and rewards with n rows
\* scalarize without raising to a result of shape (n,), the shape of beta.
C3_LogRewardShape ==
    ( /\ logrew.called
      /\ cond_info.src = "sample"
      /\ Len(rew.rows) = Len(cond_info.beta)
      /\ Len(cond_info.beta) >= 1 ) =>
        /\ logrew.status = "ok"
        /\ logrew.shape = <<Len(cond_info.beta)>>

\* C4: whenever the scalarized log-reward and beta differ in shape,
\* cond_info_to_logreward raises; it never returns a broadcast of the two.
C4_MismatchRaises ==
    (logrew.called /\ Len(rew.rows) >= 1 /\ logrew.scalar_shape # logrew.beta_shape) =>
        logrew.status \in {"assert", "raise"}

\* C5: a temperature_sample_dist outside the supported families fails the task's
\* construction; no conditioning is ever sampled or encoded under such a family.
C5_UnsupportedFailsAtSetup ==
    task.temperature_sample_dist \notin SupportedDists =>
        /\ task.state # "built"
        /\ cond_info.src = "none"

\* every gradient element of every parameter, after the clipping phase
GradElements == {<<i, e>> \in (DOMAIN trainer.grad) \X (1..2) : e \in DOMAIN trainer.grad[i]}

\* the squared norm of all gradients together
GlobalNormSq(grad) == SumSeq([i \in DOMAIN grad |-> NormSq(grad[i])])

\* C6: after the clipping phase and before any optimizer step, with "norm"
\* the norm of all gradients together is at most c; with "none" every gradient is
\* unchanged; with "value" every element lies in [-c, c].
C6_GlobalNormBounded ==
    trainer.pc = "opt_step" =>
        CASE trainer.clip_grad_type = "norm" ->
                GlobalNormSq(trainer.grad) <= ClipGradParam * ClipGradParam
          [] trainer.clip_grad_type = "none" -> trainer.grad = trainer.grad_raw
          [] trainer.clip_grad_type = "value" ->
                \A x \in GradElements :
                    trainer.grad[x[1]][x[2]] \in (0 - ClipGradParam)..ClipGradParam

\* C7: for tau in (0,1), after each call of step every sampling parameter is
\* tau * (its value before the step) + (1 - tau) * (the trained parameter at the same
\* position after the step's optimizer updates); for tau = 0 every sampling parameter
\* equals the trained parameter after any number of steps.
C7_EmaAfterStep ==
    (trainer.pc = "idle" /\ trainer.steps > 0) =>
        LET sp == SamplingParams(trainer)
        IN  /\ DOMAIN sp = DOMAIN trainer.model
            /\ \A i \in DOMAIN sp :
                  /\ DOMAIN sp[i] = DOMAIN trainer.model[i]
                  /\ \A e \in DOMAIN sp[i] :
                        IF trainer.sampling_tau > 0
                        THEN TauDen * sp[i][e] =
                                trainer.sampling_tau * trainer.sampling_old[i][e]
                                + (TauDen - trainer.sampling_tau) * trainer.model[i][e]
                        ELSE sp[i][e] = trainer.model[i][e]

\* C7 witness: a second step with tau = 0.9 has returned; the optimizers moved the
\* trained parameters and the average moved the sampling parameters, which differ
\* from the trained ones
C7_Witness ==
    /\ trainer.pc = "idle"
    /\ trainer.steps = 2
    /\ trainer.sampling_tau = 9
    /\ \A i \in DOMAIN trainer.model :
          /\ trainer.model[i] # trainer.model_old[i]
          /\ trainer.sampling_copy[i] # trainer.sampling_old[i]
          /\ trainer.sampling_copy[i] # trainer.model[i]
          /\ trainer.sampling_old[i] # trainer.model_old[i]

\* a point of the simplex over n_obj objectives
IsSimplexPoint(p, n_obj) ==
    /\ Len(p) = n_obj
    /\ \A j \in DOMAIN p : p[j] >= 0
    /\ SumSeq(p) = PrefOne

\* C8: every preference vector of a ConditioningInfo, sampled or encoded
\* from the fixed validation preferences of any preference_type, is a point of the
\* simplex: as long as the objectives, non-negative, summing to 1.
C8_PreferencesOnSimplex ==
    (cond_info.status = "ok" /\ cond_info.has_prefs) =>
        \A i \in DOMAIN cond_info.preferences :
            IsSimplexPoint(cond_info.preferences[i], Len(task.objectives))

\* the encoding sample_conditional_information gives a temperature b
SampledBetaEnc(t, b) ==
    IF t.temperature_sample_dist = "constant"
    THEN [k \in 1..NumThermometerDim |-> 0]
    ELSE thermometer(b, NumThermometerDim, 0,
                     UpperBound(t.temperature_sample_dist, t.temperature_dist_params))

\* C9: for every supported temperature family and either use_pref_thermometer, the
\* encoding of encode_conditional_information has the width and layout of the sampled
\* one: its beta block is the encoding sampling gives the beta it returns, and its
\* preference block is the one sampling gives the same preferences.
C9_EncodeMatchesSample ==
    ( /\ cond_info.src = "encode"
      /\ task.temperature_sample_dist \in SupportedDists ) =>
        /\ cond_info.status = "ok"
        /\ \A i \in DOMAIN cond_info.encoding :
              cond_info.encoding[i] =
                  SampledBetaEnc(task, cond_info.beta[i])
                  \o PreferencesEnc(task, cond_info.preferences[i])

\* C10: a launch ends with the trainer constructed or with an error. If the log
\* directory existed: with the overwrite flag it is wiped, recreated empty and the
\* trainer is constructed; without the flag the launch fails with the collision error
\* and the file system is as it was. If it did not exist it is created.
C10_LogDirHandled ==
    launch.pc \in {"constructed", "error"} =>
        IF Exists(launch.fs0, launch.hps.log_dir)
        THEN IF launch.hps.overwrite_existing_exp
             THEN /\ launch.pc = "constructed"
                  /\ launch.fs = MakeDirs(launch.fs0, launch.hps.log_dir)
             ELSE /\ launch.error = "ValueError"
                  /\ launch.fs = launch.fs0
        ELSE /\ launch.pc = "constructed"
             /\ launch.fs = MakeDirs(launch.fs0, launch.hps.log_dir)

\* the computation of objective name fails for molecule m: the descriptor raises,
\* or the proxy predicts NaN
Fails(m, name) ==
    CASE name = "seh" -> m.nan
      [] name = "qed" -> IsNone(m.qed)
      [] name = "sa" -> IsNone(m.sa)
      [] name = "mw" -> IsNone(m.mw)

\* molecule m with the computation of objective name succeeding
Repaired(m, name) ==
    CASE name = "seh" -> [m EXCEPT !.nan = FALSE]
      [] name = "qed" -> [m EXCEPT !.qed = Some(One \div 2)]
      [] name = "sa" -> [m EXCEPT !.sa = Some(One)]
      [] name = "mw" -> [m EXCEPT !.mw = Some(300)]

\* the objectives of the task, as a set
Configured(t) == {t.objectives[j] : j \in DOMAIN t.objectives}

\* C11: in the multi-objective compute_flat_rewards a failure of an objective for a
\* valid molecule never aborts the batch: the call returns, the failing entry is 0
\* (the worst reward of qed, of sa after (10 - sa)/9, of mw after the plateau
\* transform, of a NaN seh), the other objectives of that molecule are what they are
\* without the failure, and every row is what the molecule gets alone.
C11_FailureIsLocal ==
    (task.cls = "SEHMOOTask" /\ rew.called) =>
        /\ rew.status = "ok"
        /\ Len(rew.rows) = Len(ValidMols)
        /\ \A i \in DOMAIN rew.rows :
              /\ rew.rows[i] = RewardOf(task, ValidMols[i])
              /\ \A o \in Configured(task) :
                    Fails(ValidMols[i], o) =>
                        /\ rew.rows[i][ColumnOf(task, o)] = 0
                        /\ \A q \in Configured(task) \ {o} :
                              rew.rows[i][ColumnOf(task, q)] =
                                  RewardOf(task, Repaired(ValidMols[i], o))[ColumnOf(task, q)]

\* C11 witness: all four objectives; a batch of a molecule whose qed raises and whose
\* seh is NaN with a molecule whose sa and mw raise has been rewarded
C11_Witness ==
    /\ task.cls = "SEHMOOTask"
    /\ Len(task.objectives) = 4
    /\ rew.status = "ok"
    /\ Len(rew.rows) = 2
    /\ Fails(ValidMols[1], "qed") /\ Fails(ValidMols[1], "seh")
    /\ Fails(ValidMols[2], "sa") /\ Fails(ValidMols[2], "mw")
    /\ ~Fails(ValidMols[2], "qed")

\* the mw reward the plateau describes: 1 up to 300, linear down to 0 at 1000, 0 above
MwPlateau(mw) ==
    IF mw <= 300 THEN One
    ELSE IF mw >= 1000 THEN 0
    ELSE ((1000 - mw) * One) \div 700

\* C12: every entry the multi-objective compute_flat_rewards returns lies in [0, 1];
\* the mw entry is 1 up to 300, linear down to 0 at 1000 and 0 above, the sa entry is
\* (10 - sa)/9, and the seh entry is the proxy output divided by 8.
C12_EntriesInUnitInterval ==
    (task.cls = "SEHMOOTask" /\ rew.status = "ok") =>
        \A i \in DOMAIN rew.rows :
            LET m == ValidMols[i]
            IN  /\ \A j \in DOMAIN rew.rows[i] : rew.rows[i][j] \in 0..One
                /\ (InList("mw", task.objectives) /\ ~Fails(m, "mw")) =>
                       rew.rows[i][ColumnOf(task, "mw")] = MwPlateau(The(m.mw))
                /\ (InList("sa", task.objectives) /\ ~Fails(m, "sa")) =>
                       rew.rows[i][ColumnOf(task, "sa")] = (10 * One - The(m.sa)) \div 9
                /\ (InList("seh", task.objectives) /\ ~Fails(m, "seh")) =>
                       rew.rows[i][ColumnOf(task, "seh")] = m.seh \div SehDivisor

\* the positions of event ev in the calls the current step() has made so far
Positions(ev) == {k \in DOMAIN trainer.trace : trainer.trace[k] = ev}

\* ev has happened exactly once in the current call
Once(ev) == Cardinality(Positions(ev)) = 1

\* every occurrence of a comes before every occurrence of b, and b does not happen
\* without a
Precedes(a, b) ==
    \A j \in Positions(b) : \E i \in Positions(a) : i < j

\* C13: in every call of step, clipping comes after backpropagation and before either
\* optimizer steps; each scheduler steps only after its optimizer; the moving average
\* runs only for sampling_tau > 0 and after both optimizers; when step returns each
\* optimizer and each scheduler has stepped exactly once in the call (so after N calls
\* the four counts are N) and the gradients of both parameter groups are cleared.
C13_StepOrder ==
    trainer.pc # "absent" =>
        /\ Precedes("backward", "clip")
        /\ Precedes("clip", "opt.step") /\ Precedes("clip", "opt_Z.step")
        /\ Precedes("opt.step", "lr_sched.step")
        /\ Precedes("opt_Z.step", "lr_sched_Z.step")
        /\ Precedes("opt.step", "ema") /\ Precedes("opt_Z.step", "ema")
        /\ (trainer.sampling_tau = 0 => Positions("ema") = {})
        /\ (trainer.pc = "idle" /\ trainer.steps > 0) =>
              /\ Once("backward") /\ Once("clip")
              /\ Once("opt.step") /\ Once("opt_Z.step")
              /\ Once("lr_sched.step") /\ Once("lr_sched_Z.step")
              /\ (trainer.sampling_tau > 0 => Once("ema"))
              /\ \A i \in DOMAIN trainer.grad : trainer.grad[i] = <<>>
        /\ trainer.pc = "idle" =>
              /\ trainer.opt_steps = trainer.steps
              /\ trainer.opt_Z_steps = trainer.steps
              /\ trainer.sched_steps = trainer.steps
              /\ trainer.sched_Z_steps = trainer.steps

\* C13 witness: the second call of step has returned with sampling_tau = 0.9 and norm
\* clipping, after gradients that clipping changed
C13_Witness ==
    /\ trainer.pc = "idle"
    /\ trainer.steps = 2
    /\ trainer.sampling_tau > 0
    /\ trainer.clip_grad_type = "norm"
    /\ trainer.opt_steps = 2 /\ trainer.sched_Z_steps = 2
    /\ Once("ema")
    /\ \E i \in DOMAIN trainer.grad_raw : NormSq(trainer.grad_raw[i]) > ClipGradParam * ClipGradParam

\* C14: the validation dataset over K preference vectors with repeat count R has
\* length K*R; index idx in [0, K*R) gives vector number floor(idx / R), so the
\* indices in order give each of the K vectors R times, in consecutive blocks, in
\* the original order; an index outside [0, K*R) fails the assertion.
C14_RepeatedBlocks ==
    test_data.state = "built" =>
        LET K == Len(valid_prefs.rows)
            R == test_data.repeat
        IN  /\ DatasetLen(test_data) = K * R
            /\ \A k \in 1..K : \A j \in 0..(R - 1) :
                  RepeatedGetItem(test_data, (k - 1) * R + j) =
                      [status |-> "ok", item |-> valid_prefs.rows[k]]
            /\ test_data.status # "none" =>
                  IF test_data.idx \in 0..(K * R - 1)
                  THEN /\ test_data.status = "ok"
                       /\ \E k \in 1..K :
                             /\ test_data.idx \in ((k - 1) * R)..(k * R - 1)
                             /\ test_data.item = valid_prefs.rows[k]
                  ELSE test_data.status = "assert" /\ test_data.item = <<>>

\* C14 witness: two different preference vectors repeated twice; index 2, the first
\* of the second block, has been read and gave the second vector
C14_Witness ==
    /\ test_data.state = "built"
    /\ Len(valid_prefs.rows) = 2
    /\ valid_prefs.rows[1] # valid_prefs.rows[2]
    /\ test_data.repeat = 2
    /\ test_data.idx = 2
    /\ test_data.status = "ok"
    /\ test_data.item = valid_prefs.rows[2]

\* C15: a job.py launch with --part p and --total_parts t > 1 reaches the trainer's
\* construction with part = p, total_parts = t and offline_ratio = 0.25; with an
\* argument absent or t <= 1 it reaches it with neither set and offline_ratio = 0.0;
\* in both cases no error ends the launch before the log-directory handling.
C15_ShardedLaunch ==
    launch.launcher = "job" =>
        /\ launch.error # "AttributeError"
        /\ launch.pc \in {"logdir", "trainer", "constructed"} =>
              IF Sharded(launch.args)
              THEN /\ launch.hps.part = launch.args.part
                   /\ launch.hps.total_parts = launch.args.total_parts
                   /\ launch.hps.offline_ratio = 25
              ELSE /\ IsNone(launch.hps.part)
                   /\ IsNone(launch.hps.total_parts)
                   /\ launch.hps.offline_ratio = 0

\* C16: after setup of either trainer, for every configured max_nodes, the context's
\* fragment budget max_frags equals the max_nodes bound given to the algorithm, and
\* the context's num_cond_dim equals the width of the encoding the task samples.
C16_ContextMatchesAlgo ==
    ctx.state = "algo" =>
        /\ ctx.max_frags = ctx.max_nodes
        /\ (cond_info.src = "sample" /\ cond_info.status = "ok") =>
              \A i \in DOMAIN cond_info.encoding :
                  Len(cond_info.encoding[i]) = ctx.num_cond_dim

====
